---- MODULE Spec2Model ----
(***************************************************************************)
(* Model of the food-order assistant workflow:                             *)
(*   - get_next_agent            (agent/order_flow_agent.py)               *)
(*   - CustomWorkflowAgent       (agent/custom_workflow_agent.py)          *)
(*   - the four sub agents' model callbacks (preorder, menu, confirmation, *)
(*     user_info) and the cart ledger MenuAgent.update_order.              *)
(*                                                                         *)
(* Money is kept in integer cents.  A session state is a Python dict: the  *)
(* field "keys" is the set of keys present, the other fields hold the      *)
(* value of each key (a fixed filler when the key is absent).              *)
(***************************************************************************)
EXTENDS Integers, Sequences, FiniteSets, Bags, TLC

\* ------------------------------------------------------------------ bounds
MaxOrderLen  == 2   \* longest cart the workflow specifications explore
MaxItems     == 1   \* most fields of one [ ... ] list in a workflow update
MaxLedgerLen == 3   \* longest cart of the ledger specification
MaxLedgerItems == 2 \* most fields of one [ ... ] list in a ledger update
MaxPairItems == 1   \* most fields of each list of a two block ledger update

\* --------------------------------------------------------------- constants
ORDER_TYPE     == "order_type"
ORDER_STATUS   == "order_status"
CURRENT_ORDER  == "current_order"
ORDER_TOTAL    == "order_total"
NAME_FOR_ORDER == "name_for_order"

CONFIRMED         == "confirmed"
FINISHED          == "finished"
IN_PROGRESS       == "in_progress"
GETTING_USER_INFO == "getting_user_info"

PREORDER_AGENT     == "preorder_agent"
MENU_AGENT         == "menu_agent"
CONFIRMATION_AGENT == "confirmation_agent"
USER_INFO_AGENT    == "user_info_agent"
DONE               == "done"

MAX_ITERATIONS == 30
DONE_AGENT     == "done"

None == "None"

\* The sessions served by the one engine instance (agent.py: root_agent).
Sessions == {"s1", "s2"}

\* ------------------------------------------------------------ session dict
\* A Python float holding a money amount, identified by the digits repr()
\* prints for it ("9.99", "10.0", "12.5", "-0.01"): sign, whole part and the
\* one or two fraction digits (repr drops a trailing zero but keeps one
\* digit).  float(Decimal) of an amount of whole cents is the double nearest
\* to it, and repr() of that double prints the amount back (amounts here
\* have far fewer than 15 significant digits).
float(cents) ==
  LET a == IF cents < 0 THEN 0 - cents ELSE cents IN
  [neg   |-> cents < 0,
   whole |-> a \div 100,
   frac  |-> IF a % 10 = 0 THEN << (a % 100) \div 10 >>
             ELSE << (a % 100) \div 10, a % 10 >>]

\* Decimal(str(f)), in cents
DecimalOfStr(f) ==
  LET mag == f.whole * 100 + f.frac[1] * 10
             + (IF Len(f.frac) > 1 THEN f.frac[2] ELSE 0) IN
  IF f.neg THEN 0 - mag ELSE mag

EmptyState ==
  [keys |-> {}, order_type |-> "", order_status |-> "",
   current_order |-> << >>, order_total |-> float(0), name_for_order |-> ""]

\* dict.get(key, default)
Get(st, key, default) == IF key \in st.keys THEN st[key] ELSE default

\* dict[key] = value
Put(st, key, value) == [st EXCEPT ![key] = value, !.keys = @ \cup {key}]

\* Python truthiness of dict.get(NAME_FOR_ORDER, None)
NameTruthy(st) == NAME_FOR_ORDER \in st.keys /\ st.name_for_order # ""

\* ---------------------------------------------------------------- routing
\* get_next_agent with the rule for CONFIRMED missing its name test
get_next_agent_no_name_test(session_state) ==
  IF Get(session_state, ORDER_TYPE, "UNKNOWN") = "UNKNOWN"
  THEN PREORDER_AGENT
  ELSE LET order_status == Get(session_state, ORDER_STATUS, "UNKNOWN") IN
       IF order_status \in {"UNKNOWN", IN_PROGRESS} THEN MENU_AGENT
       ELSE IF order_status = FINISHED THEN CONFIRMATION_AGENT
       ELSE IF order_status \in {CONFIRMED, GETTING_USER_INFO}
            THEN USER_INFO_AGENT
       ELSE DONE

\* get_next_agent with its tests for FINISHED and IN_PROGRESS exchanged
get_next_agent_swapped(session_state) ==
  IF Get(session_state, ORDER_TYPE, "UNKNOWN") = "UNKNOWN"
  THEN PREORDER_AGENT
  ELSE LET order_status == Get(session_state, ORDER_STATUS, "UNKNOWN") IN
       IF order_status \in {"UNKNOWN", FINISHED} THEN MENU_AGENT
       ELSE IF order_status = IN_PROGRESS THEN CONFIRMATION_AGENT
       ELSE IF order_status = CONFIRMED /\ ~NameTruthy(session_state)
            THEN USER_INFO_AGENT
       ELSE IF order_status = GETTING_USER_INFO THEN USER_INFO_AGENT
       ELSE DONE

\* get_next_agent whose first test reads the key ORDER_STATUS
get_next_agent_wrong_key(session_state) ==
  IF Get(session_state, ORDER_STATUS, "UNKNOWN") = "UNKNOWN"
  THEN PREORDER_AGENT
  ELSE LET order_status == Get(session_state, ORDER_STATUS, "UNKNOWN") IN
       IF order_status \in {"UNKNOWN", IN_PROGRESS} THEN MENU_AGENT
       ELSE IF order_status = FINISHED THEN CONFIRMATION_AGENT
       ELSE IF order_status = CONFIRMED /\ ~NameTruthy(session_state)
            THEN USER_INFO_AGENT
       ELSE IF order_status = GETTING_USER_INFO THEN USER_INFO_AGENT
       ELSE DONE

\* get_next_agent without its rule for GETTING_USER_INFO
get_next_agent_no_getting_rule(session_state) ==
  IF Get(session_state, ORDER_TYPE, "UNKNOWN") = "UNKNOWN"
  THEN PREORDER_AGENT
  ELSE LET order_status == Get(session_state, ORDER_STATUS, "UNKNOWN") IN
       IF order_status \in {"UNKNOWN", IN_PROGRESS} THEN MENU_AGENT
       ELSE IF order_status = FINISHED THEN CONFIRMATION_AGENT
       ELSE IF order_status = CONFIRMED /\ ~NameTruthy(session_state)
            THEN USER_INFO_AGENT
       ELSE DONE

get_next_agent(session_state) ==
  IF Get(session_state, ORDER_TYPE, "UNKNOWN") = "UNKNOWN"
  THEN PREORDER_AGENT
  ELSE LET order_status == Get(session_state, ORDER_STATUS, "UNKNOWN") IN
       IF order_status \in {"UNKNOWN", IN_PROGRESS} THEN MENU_AGENT
       ELSE IF order_status = FINISHED THEN CONFIRMATION_AGENT
       ELSE IF order_status = CONFIRMED /\ ~NameTruthy(session_state)
            THEN USER_INFO_AGENT
       ELSE IF order_status = GETTING_USER_INFO THEN USER_INFO_AGENT
       ELSE DONE

\* The registry built by create_agent: name -> agent object (its class name).
agent_map ==
  [n \in {PREORDER_AGENT, MENU_AGENT, CONFIRMATION_AGENT, USER_INFO_AGENT} |->
     CASE n = PREORDER_AGENT     -> "PreorderAgent"
       [] n = MENU_AGENT         -> "MenuAgent"
       [] n = CONFIRMATION_AGENT -> "ConfirmationAgent"
       [] n = USER_INFO_AGENT    -> "UserInfoAgent"]

\* self.agent_map.get(name, None)
AgentMapGet(name) == IF name \in DOMAIN agent_map THEN agent_map[name] ELSE None

\* ----------------------------------------------------------------- ledger
\* MenuAgent.__init__: price_map built from _MENU, "$9.99" -> Decimal, in cents
price_map ==
  [i \in {"King Burger", "Mini Burger", "French Fries", "Onion Rings",
          "Large Fountain Drink", "Medium Fountain Drink"} |->
     CASE i = "King Burger"            -> 999
       [] i = "Mini Burger"            -> 799
       [] i = "French Fries"           -> 299
       [] i = "Onion Rings"            -> 399
       [] i = "Large Fountain Drink"   -> 399
       [] i = "Medium Fountain Drink"  -> 299]

\* self.price_map.get(item, Decimal(0))
PriceGet(item) == IF item \in DOMAIN price_map THEN price_map[item] ELSE 0

\* Item names the model may name: two catalog items and one that is not on
\* the menu; the workflow specifications use one of each.
Items == {"King Burger", "French Fries", "Milkshake"}

WorkflowItems == {"King Burger", "Milkshake"}

\* A comma separated field that is empty after strip()
Blank == ""

\* An order_update string, as re.findall(r'(\w+)\s+\[([^\]]*)\]') reads it:
\* empty says the string is "", blocks is the list of (command, items_str)
\* matches, items_str being the list of comma separated fields, each already
\* stripped of surrounding white space.
EmptyUpdate == [empty |-> TRUE, blocks |-> << >>]

\* [item.strip() for item in items_str.split(',') if item.strip()]
StripItems(items_str) == SelectSeq(items_str, LAMBDA item : item # Blank)

\* item in current_order
InOrder(current_order, item) ==
  \E k \in 1..Len(current_order) : current_order[k] = item

\* A removal that drops every occurrence of the item
ListRemoveAll(current_order, item) ==
  SelectSeq(current_order, LAMBDA i : i # item)

\* list.remove(item): drops the first occurrence (the caller has checked
\* that there is one; list.remove raises ValueError otherwise)
ListRemove(current_order, item) ==
  LET k == CHOOSE j \in 1..Len(current_order) :
             /\ current_order[j] = item
             /\ \A i \in 1..(j - 1) : current_order[i] # item
  IN  SubSeq(current_order, 1, k - 1) \o SubSeq(current_order, k + 1, Len(current_order))

\* for item in items: order_total += self.price_map.get(item, Decimal(0))
RECURSIVE SumPrices(_)
SumPrices(items) ==
  IF items = << >> THEN 0 ELSE PriceGet(Head(items)) + SumPrices(Tail(items))

\* A removal whose price subtraction sits outside the try block
RemoveOneAlwaysSubtract(c, item_to_remove) ==
  [order |-> IF InOrder(c.order, item_to_remove)
             THEN ListRemove(c.order, item_to_remove) ELSE c.order,
   total |-> c.total - PriceGet(item_to_remove)]

\* One removal of the "remove" branch: try list.remove, then subtract the
\* price; a ValueError skips the subtraction.  c = [order, total].
RemoveOne(c, item_to_remove) ==
  IF InOrder(c.order, item_to_remove)
  THEN [order |-> ListRemove(c.order, item_to_remove),
        total |-> c.total - PriceGet(item_to_remove)]
  ELSE c

RECURSIVE RemoveItems(_, _)
RemoveItems(c, items) ==
  IF items = << >> THEN c
  ELSE RemoveItems(RemoveOne(c, Head(items)), Tail(items))

\* An "add" branch that assigns the prices instead of adding them
AddItemsAssign(c, items) ==
  [order |-> c.order \o items, total |-> SumPrices(items)]

\* The "add" branch: current_order.extend(items), then the prices.
AddItems(c, items) ==
  [order |-> c.order \o items, total |-> c.total + SumPrices(items)]

\* One (command, items_str) block of the for loop.
ApplyBlock(c, block) ==
  LET items == StripItems(block.items_str) IN
  IF block.command = "add" THEN AddItems(c, items)
  ELSE IF block.command = "remove" THEN RemoveItems(c, items)
  ELSE c

\* A loop that applies the command blocks from right to left
RECURSIVE ApplyBlocksReversed(_, _)
ApplyBlocksReversed(c, blocks) ==
  IF blocks = << >> THEN c
  ELSE ApplyBlock(ApplyBlocksReversed(c, Tail(blocks)), Head(blocks))

RECURSIVE ApplyBlocks(_, _)
ApplyBlocks(c, blocks) ==
  IF blocks = << >> THEN c
  ELSE ApplyBlocks(ApplyBlock(c, Head(blocks)), Tail(blocks))

\* update_order without its early return for an empty order_update
update_order_no_early_return(order_update, state0) ==
  LET st1 == IF CURRENT_ORDER \in state0.keys THEN state0
             ELSE Put(state0, CURRENT_ORDER, << >>)
      st2 == IF ORDER_TOTAL \in st1.keys THEN st1
             ELSE Put(st1, ORDER_TOTAL, float(0))
      c0  == [order |-> st2.current_order,
              total |-> DecimalOfStr(st2.order_total)]
      c1  == ApplyBlocks(c0, order_update.blocks)
  IN  Put(Put(st2, CURRENT_ORDER, c1.order), ORDER_TOTAL, float(c1.total))

\* AfterModelCallback.update_order(order_update, state)
update_order(order_update, state0) ==
  IF order_update.empty THEN state0
  ELSE
    LET st1 == IF CURRENT_ORDER \in state0.keys THEN state0
               ELSE Put(state0, CURRENT_ORDER, << >>)
        st2 == IF ORDER_TOTAL \in st1.keys THEN st1
               ELSE Put(st1, ORDER_TOTAL, float(0))
        c0  == [order |-> st2.current_order,
                total |-> DecimalOfStr(st2.order_total)]
        c1  == ApplyBlocks(c0, order_update.blocks)
    IN  Put(Put(st2, CURRENT_ORDER, c1.order), ORDER_TOTAL, float(c1.total))


\* ------------------------------------------------------- model outputs
Commands == {"add", "remove", "replace"}

\* Lists of at most n comma separated fields naming items of the set items
ItemLists(items, n) == UNION {[1..k -> items \cup {Blank}] : k \in 0..n}

Blocks(items, n) == [command : Commands, items_str : ItemLists(items, n)]

\* order_update strings with at most one command block, and ""
Updates(items, n) ==
  {EmptyUpdate, [empty |-> FALSE, blocks |-> << >>]}
  \cup {[empty |-> FALSE, blocks |-> << b >>] : b \in Blocks(items, n)}

\* order_update strings with two command blocks
PairUpdates(items, n) ==
  {[empty |-> FALSE, blocks |-> << b1, b2 >>] :
     b1 \in Blocks(items, n), b2 \in Blocks(items, n)}

\* menu_agent OutputSchema
MenuOutputs ==
  [order_update : Updates(WorkflowItems, MaxItems), order_finished : BOOLEAN]

\* menu_agent outputs of a conversation that leaves the cart alone
NoUpdateOutputs == [order_update : {EmptyUpdate}, order_finished : BOOLEAN]

\* preorder_agent OutputSchema.order_type (the enum member's name)
OrderTypes == {"TO_GO", "FOR_HERE", "UNKNOWN"}

\* confirmation_agent OutputSchema.order_confirmed is any string
Confirmations == {"true", "false", "unknown", "yes"}

\* user_info_agent OutputSchema
UserInfoOutputs == [name_for_order : {"", "john"}, requires_order_update : BOOLEAN]

\* --------------------------------------------------------------- variables
VARIABLES
  router,    \* the get_next_agent callable the engine was built with
  step,      \* CustomWorkflowAgent.step, a field of the one engine instance
  state,     \* state[s]: ctx.session.state of session s
  pc,        \* pc[s]: "idle" (no call in progress), "running" (a sub agent
             \*        of the call is running), "routed" (routing evaluated)
  selected,  \* selected[s]: selected_agent_name of the call of s
  ran,       \* ran[s]: sub agent runs started by the current/last call of s
  exit,      \* exit[s]: the statement that ended the last call of s
  outcome,   \* outcome[s]: "returned" (generator finished) or "raised"
  user_content, \* user_content[s]: ctx.user_content of the current/last
             \*        call of s, None before the first call
  seen,      \* seen[s]: user_content of the ctx the last sub agent of s
             \*        was run with
  recording, \* whether call_pre is kept
  call_pre,  \* call_pre[s]: state[s] when the current/last call of s began
  led_pre,   \* ledger specification: state before the last update(s)
  led_upd,   \* ledger specification: the last update applied
  led_op     \* ledger specification: the last operation

vars == << router, step, state, pc, selected, ran, exit, outcome,
           user_content, seen, recording, call_pre,
           led_pre, led_upd, led_op >>

ledger_vars == << led_pre, led_upd, led_op >>

call_vars == << user_content, seen, recording, call_pre >>

\* What the user may say in a call
UserContents == {"hello"}

\* Names a crafted routing callable may return
CraftedNames == (DOMAIN agent_map) \cup {DONE, "unknown_agent"}

Routers == {"order_flow", "crafted"}

\* self.get_next_agent(session_state) returns name
Routes(st, name) ==
  IF router = "order_flow" THEN name = get_next_agent(st)
  ELSE name \in CraftedNames

\* A loop that never tests the step count
WhileTrue(st) == TRUE

\* while self.step < _MAX_ITERATIONS
WhileCond(st) == st < MAX_ITERATIONS

\* The call of s ends: return statement / loop exit "how"
Return(s, name, how, r) ==
  /\ pc' = [pc EXCEPT ![s] = "idle"]
  /\ selected' = [selected EXCEPT ![s] = name]
  /\ ran' = [ran EXCEPT ![s] = r]
  /\ exit' = [exit EXCEPT ![s] = how]
  /\ outcome' = [outcome EXCEPT ![s] = "returned"]
  /\ UNCHANGED seen

\* An exception leaves _run_async_impl of the call of s
Raise(s, how) ==
  /\ pc' = [pc EXCEPT ![s] = "idle"]
  /\ exit' = [exit EXCEPT ![s] = how]
  /\ outcome' = [outcome EXCEPT ![s] = "raised"]
  /\ UNCHANGED << selected, ran, step, call_vars >>

\* A hand-off that runs the next sub agent with the user content cleared
SubAgentCtxFirstOnly(content, r) == IF r = 0 THEN content ELSE None

\* selected_agent.run_async(ctx): the r+1-th sub agent of the call is given
\* the ctx of the call as it is
SubAgentCtx(content, r) == content

\* Lines 70-82 with selected_agent_name = name: the loop test, the step
\* count, the registry lookup and the two early returns; r is the number
\* of sub agents the call has run so far.
\* The sub agent then runs with the ctx of the call, whose user content is
\* content.
LoopHead(s, name, r, content) ==
  IF WhileCond(step)
  THEN /\ step' = step + 1
       /\ LET selected_agent == AgentMapGet(name) IN
          IF selected_agent = DONE_AGENT THEN Return(s, name, "done", r)
          ELSE IF selected_agent = None THEN Return(s, name, "unknown_agent", r)
          ELSE /\ pc' = [pc EXCEPT ![s] = "running"]
               /\ selected' = [selected EXCEPT ![s] = name]
               /\ ran' = [ran EXCEPT ![s] = r + 1]
               /\ exit' = [exit EXCEPT ![s] = "none"]
               /\ outcome' = [outcome EXCEPT ![s] = "none"]
               /\ seen' = [seen EXCEPT ![s] = SubAgentCtx(content, r)]
  ELSE /\ step' = step
       /\ Return(s, name, "cap", r)

\* An external call that first writes a default status into the session
CallWritesDefault(s) ==
  /\ pc[s] = "idle"
  /\ state' = [state EXCEPT ![s] =
        IF ORDER_STATUS \in @.keys THEN @ ELSE Put(@, ORDER_STATUS, "UNKNOWN")]
  /\ \E name \in CraftedNames, content \in UserContents :
       /\ Routes(state[s], name)
       /\ user_content' = [user_content EXCEPT ![s] = content]
       /\ LoopHead(s, name, 0, content)
  /\ call_pre' = IF recording THEN [call_pre EXCEPT ![s] = state[s]]
                 ELSE call_pre
  /\ UNCHANGED << router, recording, ledger_vars >>

\* An external call that routes on the session dict of any session
CallAnySession(s) ==
  /\ pc[s] = "idle"
  /\ \E name \in CraftedNames, content \in UserContents, t \in Sessions :
       /\ Routes(state[t], name)
       /\ user_content' = [user_content EXCEPT ![s] = content]
       /\ LoopHead(s, name, 0, content)
  /\ call_pre' = IF recording THEN [call_pre EXCEPT ![s] = state[s]]
                 ELSE call_pre
  /\ UNCHANGED << router, recording, state, ledger_vars >>

\* An external call for session s: lines 68-69, then the loop.
Call(s) ==
  /\ pc[s] = "idle"
  /\ \E name \in CraftedNames, content \in UserContents :
       /\ Routes(state[s], name)
       /\ user_content' = [user_content EXCEPT ![s] = content]
       /\ LoopHead(s, name, 0, content)
  /\ call_pre' = IF recording THEN [call_pre EXCEPT ![s] = state[s]]
                 ELSE call_pre
  /\ UNCHANGED << router, recording, state, ledger_vars >>

\* Lines 86-90 after the sub agent left the state st, then the loop again.
AfterAgent(s, st) ==
  /\ state' = [state EXCEPT ![s] = st]
  /\ \E next_agent \in CraftedNames :
       /\ Routes(st, next_agent)
       /\ IF next_agent = selected[s]
          THEN /\ Return(s, selected[s], "turn_boundary", ran[s])
               /\ step' = step
          ELSE LoopHead(s, next_agent, ran[s], user_content[s])
  /\ UNCHANGED << router, recording, user_content, call_pre, ledger_vars >>

Running(s, agent_name) == pc[s] = "running" /\ selected[s] = agent_name

\* preorder_agent AfterModelCallback.__call__
PreorderCallback(st, order_type) ==
  IF order_type # "UNKNOWN" THEN Put(st, ORDER_TYPE, order_type) ELSE st

Preorder(s) ==
  /\ Running(s, PREORDER_AGENT)
  /\ \E order_type \in OrderTypes :
       AfterAgent(s, PreorderCallback(state[s], order_type))

\* menu_agent AfterModelCallback.__call__
MenuCallback(st, output) ==
  update_order(output.order_update,
               Put(st, ORDER_STATUS,
                   IF output.order_finished THEN FINISHED ELSE IN_PROGRESS))

MenuWith(s, outputs) ==
  /\ Running(s, MENU_AGENT)
  /\ \E output \in outputs :
       LET st == MenuCallback(state[s], output) IN
       /\ Len(st.current_order) <= MaxOrderLen
       /\ AfterAgent(s, st)

Menu(s) == MenuWith(s, MenuOutputs)

\* The menu agent when the user never changes the cart
MenuNoUpdate(s) == MenuWith(s, NoUpdateOutputs)

\* confirmation_agent AfterModelCallback.__call__
ConfirmationCallback(st, order_confirmed) ==
  IF order_confirmed # "unknown"
  THEN IF order_confirmed = "true" THEN Put(st, ORDER_STATUS, CONFIRMED)
       ELSE Put(st, ORDER_STATUS, IN_PROGRESS)
  ELSE st

Confirmation(s) ==
  /\ Running(s, CONFIRMATION_AGENT)
  /\ \E order_confirmed \in Confirmations :
       AfterAgent(s, ConfirmationCallback(state[s], order_confirmed))

\* user_info_agent BeforeModelCallback.__call__ answers itself (the model is
\* not called) exactly when the status is CONFIRMED
BeforeAnswers(st) == st.order_status = CONFIRMED

BeforeModelCallback(st) ==
  IF NameTruthy(st) THEN st ELSE Put(st, ORDER_STATUS, GETTING_USER_INFO)

\* An AfterModelCallback that puts the status back to CONFIRMED with the name
UserInfoCallbackConfirms(st, output) ==
  IF output.requires_order_update THEN Put(st, ORDER_STATUS, IN_PROGRESS)
  ELSE Put(Put(st, NAME_FOR_ORDER, output.name_for_order), ORDER_STATUS, CONFIRMED)

\* user_info_agent AfterModelCallback.__call__
UserInfoCallback(st, output) ==
  IF output.requires_order_update THEN Put(st, ORDER_STATUS, IN_PROGRESS)
  ELSE Put(st, NAME_FOR_ORDER, output.name_for_order)

UserInfo(s) ==
  /\ Running(s, USER_INFO_AGENT)
  /\ IF ORDER_STATUS \notin state[s].keys
     THEN \* state[constants.ORDER_STATUS] raises KeyError
          /\ Raise(s, "key_error")
          /\ UNCHANGED << router, state, ledger_vars >>
     ELSE IF BeforeAnswers(state[s])
     THEN AfterAgent(s, BeforeModelCallback(state[s]))
     ELSE \E output \in UserInfoOutputs :
            AfterAgent(s, UserInfoCallback(state[s], output))

\* The sub agent's model is called and its text fails
\* OutputSchema.model_validate_json: the ValidationError leaves the
\* callback before it touches the state.
CallsModel(s) ==
  selected[s] = USER_INFO_AGENT =>
    (ORDER_STATUS \in state[s].keys /\ ~BeforeAnswers(state[s]))

InvalidOutput(s) ==
  /\ pc[s] = "running"
  /\ CallsModel(s)
  /\ Raise(s, "validation_error")
  /\ UNCHANGED << router, state, ledger_vars >>

\* ---------------------------------------------------------- specifications
InitEngine ==
  /\ step = 0
  /\ state = [s \in Sessions |-> EmptyState]
  /\ pc = [s \in Sessions |-> "idle"]
  /\ selected = [s \in Sessions |-> None]
  /\ ran = [s \in Sessions |-> 0]
  /\ exit = [s \in Sessions |-> "none"]
  /\ outcome = [s \in Sessions |-> "none"]
  /\ user_content = [s \in Sessions |-> None]
  /\ seen = [s \in Sessions |-> None]
  /\ call_pre = [s \in Sessions |-> EmptyState]
  /\ led_pre = EmptyState
  /\ led_upd = EmptyUpdate
  /\ led_op = "none"

\* The application as order_flow_agent.create_agent builds it, one session.
Init == InitEngine /\ router = "order_flow" /\ recording = FALSE

Step(s) ==
  \/ Call(s)
  \/ Preorder(s)
  \/ Menu(s)
  \/ Confirmation(s)
  \/ UserInfo(s)
  \/ InvalidOutput(s)

Next == Step("s1")

Spec == Init /\ [][Next]_vars

\* The engine class built with a crafted routing callable, which may return
\* any name at any time; the cart is left alone.
InitCrafted == InitEngine /\ router = "crafted" /\ recording = FALSE

StepEngine(s) ==
  \/ Call(s)
  \/ Preorder(s)
  \/ MenuNoUpdate(s)
  \/ Confirmation(s)
  \/ UserInfo(s)
  \/ InvalidOutput(s)

NextEngine == StepEngine("s1")

SpecEngine == InitCrafted /\ [][NextEngine]_vars

\* The application with the state at the start of each call kept in
\* call_pre; the cart is left alone.
InitCalls == InitEngine /\ router = "order_flow" /\ recording = TRUE

NextCalls == StepEngine("s1")

SpecCalls == InitCalls /\ [][NextCalls]_vars

\* Two sessions served by the one engine instance (agent.py root_agent),
\* their calls and sub agent runs interleaved in any order, both still
\* choosing the order type or the items; the cart is left alone.
StepSessions(s) ==
  \/ Call(s)
  \/ Preorder(s)
  \/ MenuNoUpdate(s)
  \/ InvalidOutput(s)

NextSessions == \E s \in Sessions : StepSessions(s)

SpecSessions == Init /\ [][NextSessions]_vars

\* Two sessions on the one engine instance, interleaved in any order: s1
\* goes through the whole order, s2 is still choosing the order type or the
\* items; the cart is left alone.
NextInterleaved == StepEngine("s1") \/ StepSessions("s2")

SpecInterleaved == Init /\ [][NextInterleaved]_vars

\* ------------------------------------------------ routing specification
\* get_next_agent applied to any session dict.
Absent == "<absent>"

PutOpt(st, key, value) == IF value = Absent THEN st ELSE Put(st, key, value)

RouteStates ==
  {PutOpt(PutOpt(PutOpt(EmptyState, ORDER_TYPE, t), ORDER_STATUS, os),
          NAME_FOR_ORDER, n) :
     t \in OrderTypes \cup {Absent},
     os \in {"UNKNOWN", IN_PROGRESS, FINISHED, CONFIRMED, GETTING_USER_INFO,
             Absent},
     n \in {"", "john", Absent}}

InitRoute ==
  /\ router = "order_flow"
  /\ step = 0
  /\ \E st \in RouteStates :
       state = [s \in Sessions |-> IF s = "s1" THEN st ELSE EmptyState]
  /\ pc = [s \in Sessions |-> "idle"]
  /\ selected = [s \in Sessions |-> None]
  /\ ran = [s \in Sessions |-> 0]
  /\ exit = [s \in Sessions |-> "none"]
  /\ outcome = [s \in Sessions |-> "none"]
  /\ user_content = [s \in Sessions |-> None]
  /\ seen = [s \in Sessions |-> None]
  /\ recording = FALSE
  /\ call_pre = [s \in Sessions |-> EmptyState]
  /\ led_pre = EmptyState
  /\ led_upd = EmptyUpdate
  /\ led_op = "none"

\* selected_agent_name = self.get_next_agent(session_state), on its own
Route(s) ==
  /\ pc[s] = "idle"
  /\ \E name \in CraftedNames :
       /\ Routes(state[s], name)
       /\ selected' = [selected EXCEPT ![s] = name]
  /\ pc' = [pc EXCEPT ![s] = "routed"]
  /\ UNCHANGED << router, step, state, ran, exit, outcome, call_vars,
                  ledger_vars >>

NextRoute == Route("s1")

SpecRoute == InitRoute /\ [][NextRoute]_vars

\* ------------------------------------------------- ledger specification
\* update_order applied to any cart the ledger can have produced.
Carts(n) == UNION {[1..k -> Items] : k \in 0..n}

\* The session dict of a running order whose ledger holds the cart
LedgerState(cart) ==
  Put(Put(Put(Put(EmptyState, ORDER_TYPE, "TO_GO"), ORDER_STATUS, IN_PROGRESS),
          CURRENT_ORDER, cart), ORDER_TOTAL, float(SumPrices(cart)))

LedgerStates ==
  {Put(Put(EmptyState, ORDER_TYPE, "TO_GO"), ORDER_STATUS, IN_PROGRESS)}
  \cup {LedgerState(cart) : cart \in Carts(MaxLedgerLen)}

InitLedger ==
  /\ router = "order_flow"
  /\ step = 0
  /\ \E st \in LedgerStates :
       state = [s \in Sessions |-> IF s = "s1" THEN st ELSE EmptyState]
  /\ pc = [s \in Sessions |-> "idle"]
  /\ selected = [s \in Sessions |-> None]
  /\ ran = [s \in Sessions |-> 0]
  /\ exit = [s \in Sessions |-> "none"]
  /\ outcome = [s \in Sessions |-> "none"]
  /\ user_content = [s \in Sessions |-> None]
  /\ seen = [s \in Sessions |-> None]
  /\ recording = FALSE
  /\ call_pre = [s \in Sessions |-> EmptyState]
  /\ led_pre = EmptyState
  /\ led_upd = EmptyUpdate
  /\ led_op = "none"

AddUpdate(item) ==
  [empty |-> FALSE, blocks |-> << [command |-> "add", items_str |-> << item >>] >>]

RemoveUpdate(item) ==
  [empty |-> FALSE, blocks |-> << [command |-> "remove", items_str |-> << item >>] >>]

\* One update_order call
LedgerUpdate(s) ==
  /\ Len(state[s].current_order) <= MaxLedgerLen
  /\ \E order_update \in Updates(Items, MaxLedgerItems) :
       /\ led_upd' = order_update
       /\ state' = [state EXCEPT ![s] = update_order(order_update, state[s])]
  /\ led_pre' = state[s]
  /\ led_op' = "update"
  /\ UNCHANGED << router, step, pc, selected, ran, exit, outcome, call_vars >>

\* update_order("add [X]") followed by update_order("remove [X]"), X on the menu
LedgerRoundTrip(s) ==
  /\ Len(state[s].current_order) <= MaxLedgerLen
  /\ \E item \in Items \cap DOMAIN price_map :
       /\ led_upd' = AddUpdate(item)
       /\ state' = [state EXCEPT ![s] =
            update_order(RemoveUpdate(item), update_order(AddUpdate(item), state[s]))]
  /\ led_pre' = state[s]
  /\ led_op' = "round_trip"
  /\ UNCHANGED << router, step, pc, selected, ran, exit, outcome, call_vars >>

NextLedger == LedgerUpdate("s1") \/ LedgerRoundTrip("s1")

SpecLedger == InitLedger /\ [][NextLedger]_vars

\* ------------------------------------------ command blocks specification
\* The first update_order call on a ledger, with an order_update of at most
\* two command blocks
LedgerBlocks(s) ==
  /\ led_op = "none"
  /\ \E order_update \in Updates(Items, MaxLedgerItems)
                          \cup PairUpdates(Items, MaxPairItems) :
       /\ led_upd' = order_update
       /\ state' = [state EXCEPT ![s] = update_order(order_update, state[s])]
  /\ led_pre' = state[s]
  /\ led_op' = "update"
  /\ UNCHANGED << router, step, pc, selected, ran, exit, outcome, call_vars >>

NextBlocks == LedgerBlocks("s1")

SpecBlocks == InitLedger /\ [][NextBlocks]_vars

\* ------------------------------------------------------------ properties
TypeOK ==
  /\ step \in 0..MAX_ITERATIONS
  /\ \A s \in Sessions : ran[s] \in 0..MAX_ITERATIONS

\* The cart and the total a session dict holds, an absent key read as the
\* empty cart and as 0
CartOf(st) == Get(st, CURRENT_ORDER, << >>)

TotalOf(st) == DecimalOfStr(Get(st, ORDER_TOTAL, float(0)))

\* Number of units of item in a list
CountOf(seq, item) == Cardinality({k \in 1..Len(seq) : seq[k] = item})

\* ---------------------------------------------------------------- C1
\* The decision table of the routing rules, first matching rule first;
\* no_name says when name_for_order counts as unset.
RuleTable(st, result, no_name) ==
  LET type_unknown   == ORDER_TYPE \notin st.keys \/ st.order_type = "UNKNOWN"
      status_unknown == ORDER_STATUS \notin st.keys \/ st.order_status = "UNKNOWN"
      status_is(v)   == ORDER_STATUS \in st.keys /\ st.order_status = v
  IN
  /\ result \in {PREORDER_AGENT, MENU_AGENT, CONFIRMATION_AGENT,
                 USER_INFO_AGENT, DONE}
  /\ type_unknown => result = PREORDER_AGENT
  /\ (~type_unknown /\ (status_unknown \/ status_is(IN_PROGRESS)))
       => result = MENU_AGENT
  /\ (~type_unknown /\ status_is(FINISHED)) => result = CONFIRMATION_AGENT
  /\ (~type_unknown /\ status_is(CONFIRMED) /\ no_name)
       => result = USER_INFO_AGENT
  /\ (~type_unknown /\ status_is(GETTING_USER_INFO)) => result = USER_INFO_AGENT
  /\ (~type_unknown /\ status_is(CONFIRMED) /\ ~no_name) => result = DONE

\* C1 as stated: get_next_agent returns one of the five names, the one of
\* the first matching rule, rule 4 applying when order_status is CONFIRMED
\* and the key name_for_order is unset.
C1_RouteFirstMatchNameUnset ==
  \A s \in Sessions :
    pc[s] = "routed" =>
      RuleTable(state[s], selected[s], NAME_FOR_ORDER \notin state[s].keys)

\* C1 amended: the same decision table, rule 4 applying when order_status
\* is CONFIRMED and name_for_order is unset or the empty string.
C1_RouteFirstMatchNameEmpty ==
  \A s \in Sessions :
    pc[s] = "routed" =>
      RuleTable(state[s], selected[s],
                NAME_FOR_ORDER \notin state[s].keys \/ state[s].name_for_order = "")

\* A confirmed order whose name is the empty string was routed to user_info.
C1_Witness ==
  /\ pc["s1"] = "routed"
  /\ state["s1"].order_status = CONFIRMED
  /\ ORDER_TYPE \in state["s1"].keys /\ state["s1"].order_type = "TO_GO"
  /\ NAME_FOR_ORDER \in state["s1"].keys /\ state["s1"].name_for_order = ""
  /\ selected["s1"] = USER_INFO_AGENT

\* ---------------------------------------------------------------- C2
\* The step of session s in which a sub agent finishes without raising and
\* the routing evaluated after it names a registered agent.
AgentRanThenRouted(s) ==
  /\ pc[s] = "running"
  /\ pc'[s] = "idle" \/ ran'[s] # ran[s]
  /\ outcome'[s] # "raised"
  /\ selected'[s] \in DOMAIN agent_map

\* C2: after a sub agent has run, the call ends (control returns to the
\* caller) if and only if the routing names the agent just run; when it
\* names another agent the call goes on with that agent.
C2_ReturnIffSameAgent ==
  [][\A s \in Sessions :
       AgentRanThenRouted(s) =>
         /\ (pc'[s] = "idle") <=> (selected'[s] = selected[s])
         /\ selected'[s] # selected[s] => pc'[s] = "running"]_vars

\* ---------------------------------------------------------------- C3
\* C3: the cap is counted per external call: a call that ends because the
\* step count reached the cap has itself run 30 sub agents.
C3_CapCountsThisCall ==
  \A s \in Sessions : exit[s] = "cap" => ran[s] = MAX_ITERATIONS

\* ---------------------------------------------------------------- C4
\* C4: a call that used up its 30 iterations while the routing still names
\* another agent ends with a fatal outcome, not with a normal return.
C4_CapIsFatal ==
  \A s \in Sessions :
    (exit[s] = "cap" /\ ran[s] = MAX_ITERATIONS) => outcome[s] = "raised"

\* ---------------------------------------------------------------- C5
\* C5: no external call runs more than 30 sub agents, whatever the routing
\* callable returns, and a call in progress can always take its next step
\* (so it ends after at most 30 of them).
C5_AtMost30PerCall ==
  \A s \in Sessions :
    /\ ran[s] <= MAX_ITERATIONS
    /\ pc[s] = "running" => ENABLED StepEngine(s)

\* A call ran 30 sub agents and then ended.
C5_Witness ==
  pc["s1"] = "idle" /\ ran["s1"] = MAX_ITERATIONS /\ exit["s1"] = "cap"

\* ---------------------------------------------------------------- C6
\* C6: when the routed name is the terminal sentinel the call stops
\* normally, not through the unknown-agent error return.
C6_TerminalIsNotUnknown ==
  \A s \in Sessions :
    (pc[s] = "idle" /\ selected[s] = DONE) => exit[s] # "unknown_agent"

\* ---------------------------------------------------------------- C7
\* C7: when the routed name is neither registered nor the terminal sentinel
\* the call ends with a fatal outcome the caller can tell from a normal
\* return.
C7_UnknownIsFatal ==
  \A s \in Sessions :
    (exit[s] = "unknown_agent" /\ selected[s] # DONE) => outcome[s] = "raised"

\* ---------------------------------------------------------------- C8
\* C8: in every reachable state of the workflow, order_total is the sum of
\* the catalog prices of the items of current_order, an item that is not in
\* the catalog counting 0.
C8_TotalIsSumOfPrices ==
  \A s \in Sessions : TotalOf(state[s]) = SumPrices(CartOf(state[s]))

\* A finished order holding a catalog item and an item that is not on the
\* menu.
C8_Witness ==
  /\ state["s1"].order_status = FINISHED
  /\ CartOf(state["s1"]) = << "King Burger", "Milkshake" >>
  /\ TotalOf(state["s1"]) = 999

\* ---------------------------------------------------------------- C9
\* C9 as stated: add [X] then remove [X] gives back current_order, as a
\* sequence, and order_total.
C9_RoundTripSameSequence ==
  led_op = "round_trip" =>
    /\ CartOf(state["s1"]) = CartOf(led_pre)
    /\ TotalOf(state["s1"]) = TotalOf(led_pre)

\* The item of the round trip
RoundTripItem == led_upd.blocks[1].items_str[1]

\* C9 amended: add [X] then remove [X] gives back order_total and the same
\* number of units of every item; the sequence is the same when X was not
\* in the cart before (otherwise the first X has moved to the end).
C9_RoundTripSameUnits ==
  led_op = "round_trip" =>
    /\ TotalOf(state["s1"]) = TotalOf(led_pre)
    /\ \A item \in Items :
         CountOf(CartOf(state["s1"]), item) = CountOf(CartOf(led_pre), item)
    /\ ~InOrder(CartOf(led_pre), RoundTripItem)
         => CartOf(state["s1"]) = CartOf(led_pre)
    /\ InOrder(CartOf(led_pre), RoundTripItem)
         => CartOf(state["s1"]) =
              ListRemove(CartOf(led_pre), RoundTripItem) \o << RoundTripItem >>

\* A round trip on a cart that held X before another item.
C9_Witness ==
  /\ led_op = "round_trip"
  /\ RoundTripItem = "King Burger"
  /\ CartOf(led_pre) = << "King Burger", "French Fries" >>
  /\ CartOf(state["s1"]) = << "French Fries", "King Burger" >>

\* ---------------------------------------------------------------- C10
\* The last ledger operation was one update made of a single remove block
IsRemoveUpdate ==
  /\ led_op = "update"
  /\ ~led_upd.empty
  /\ Len(led_upd.blocks) = 1
  /\ led_upd.blocks[1].command = "remove"

RemoveList == StripItems(led_upd.blocks[1].items_str)

Min(a, b) == IF a < b THEN a ELSE b

\* Units of item a remove list takes out of a cart
UnitsRemoved(cart, list, item) == Min(CountOf(cart, item), CountOf(list, item))

RECURSIVE PriceOfRemoved(_, _, _)
PriceOfRemoved(cart, list, items) ==
  IF items = {} THEN 0
  ELSE LET item == CHOOSE i \in items : TRUE IN
       PriceGet(item) * UnitsRemoved(cart, list, item)
       + PriceOfRemoved(cart, list, items \ {item})

\* C10: a remove list takes out, of each item, as many units as it names
\* and the cart holds, never more, and subtracts the price of exactly those
\* units; naming only items the cart does not hold changes nothing.
C10_RemoveAbsentIsNoOp ==
  IsRemoveUpdate =>
    /\ \A item \in Items :
         CountOf(CartOf(state["s1"]), item)
           = CountOf(CartOf(led_pre), item)
             - UnitsRemoved(CartOf(led_pre), RemoveList, item)
    /\ TotalOf(state["s1"])
         = TotalOf(led_pre) - PriceOfRemoved(CartOf(led_pre), RemoveList, Items)
    /\ (\A k \in 1..Len(RemoveList) : ~InOrder(CartOf(led_pre), RemoveList[k]))
         => /\ CartOf(state["s1"]) = CartOf(led_pre)
            /\ TotalOf(state["s1"]) = TotalOf(led_pre)

\* remove [X, X] on a cart with one X took out that X and its price once.
C10_Witness ==
  /\ IsRemoveUpdate
  /\ RemoveList = << "King Burger", "King Burger" >>
  /\ CartOf(led_pre) = << "French Fries", "King Burger" >>
  /\ CartOf(state["s1"]) = << "French Fries" >>
  /\ TotalOf(led_pre) = 1298
  /\ TotalOf(state["s1"]) = 299


\* ---------------------------------------------------------------- C11
\* order_status as routing reads it
StatusOf(st) == Get(st, ORDER_STATUS, "UNKNOWN")

\* C11: order_status becomes CONFIRMED only in a step that starts with the
\* status FINISHED, and becomes GETTING_USER_INFO only in a step that starts
\* with the status CONFIRMED.
C11_NoStatusSkipped ==
  [][\A s \in Sessions :
       /\ (StatusOf(state'[s]) = CONFIRMED /\ StatusOf(state[s]) # CONFIRMED)
            => StatusOf(state[s]) = FINISHED
       /\ (StatusOf(state'[s]) = GETTING_USER_INFO
             /\ StatusOf(state[s]) # GETTING_USER_INFO)
            => StatusOf(state[s]) = CONFIRMED]_vars

\* The name has been asked for: both changes have happened.
C11_Witness ==
  /\ StatusOf(state["s1"]) = GETTING_USER_INFO
  /\ pc["s1"] = "idle" /\ exit["s1"] = "turn_boundary"

\* ---------------------------------------------------------------- C12
\* The step in which user_info_agent calls the model and its output carries
\* a name and no order change
NameReceived(s) ==
  /\ Running(s, USER_INFO_AGENT)
  /\ ORDER_STATUS \in state[s].keys /\ ~BeforeAnswers(state[s])
  /\ outcome'[s] # "raised"
  /\ NameTruthy(state'[s])
  /\ StatusOf(state'[s]) = StatusOf(state[s])
  /\ pc'[s] = "idle" \/ ran'[s] # ran[s]

\* C12: once user_info_agent has received a name, the next routing decision
\* on the resulting state is the terminal one.
C12_NameLeadsToDone ==
  [][\A s \in Sessions :
       NameReceived(s) => get_next_agent(state'[s]) = DONE]_vars

\* ---------------------------------------------------------------- C15
\* A step that starts an external call of session s
CallStep(s) == pc[s] = "idle" /\ (pc'[s] # "idle" \/ exit'[s] # exit[s])

\* C15: the session state changes only in steps in which a sub agent runs,
\* and the routing evaluated at the start of a call, on the state the last
\* call left at its turn boundary, names the same agent again.
C15_OnlyAgentsChangeState ==
  [][\A s \in Sessions :
       /\ state'[s] # state[s] => pc[s] = "running"
       /\ (CallStep(s) /\ exit[s] = "turn_boundary")
            => (state'[s] = state[s] /\ selected'[s] = selected[s])]_vars

\* A second call has started from a turn boundary with the state edited by
\* agents only.
C15_Witness ==
  /\ pc["s1"] = "running" /\ ran["s1"] = 1 /\ step > 1
  /\ selected["s1"] = CONFIRMATION_AGENT

\* ---------------------------------------------------------------- C16
TypeSet(st) == ORDER_TYPE \in st.keys /\ st.order_type \in {"TO_GO", "FOR_HERE"}

\* C16: once order_type is TO_GO or FOR_HERE no step changes it, and
\* preorder_agent is not run again.
C16_OrderTypeSetOnce ==
  [][\A s \in Sessions :
       /\ TypeSet(state[s])
            => (ORDER_TYPE \in state'[s].keys
                /\ state'[s].order_type = state[s].order_type)
       /\ TypeSet(state'[s]) => ~(pc'[s] = "running" /\ selected'[s] = PREORDER_AGENT)
     ]_vars

\* The type was chosen and the order went on to the name.
C16_Witness ==
  /\ TypeSet(state["s1"]) /\ state["s1"].order_type = "FOR_HERE"
  /\ StatusOf(state["s1"]) = GETTING_USER_INFO
  /\ NameTruthy(state["s1"])

\* ---------------------------------------------------------------- C17
StatusEnum == {IN_PROGRESS, FINISHED, CONFIRMED, GETTING_USER_INFO}

\* The edges of order_status and the agent that makes each
StatusEdge(from, to, agent) ==
  \/ /\ agent = MENU_AGENT
     /\ from \in {"UNKNOWN", IN_PROGRESS}
     /\ to \in {IN_PROGRESS, FINISHED}
  \/ /\ agent = CONFIRMATION_AGENT
     /\ from = FINISHED
     /\ to \in {CONFIRMED, IN_PROGRESS}
  \/ /\ agent = USER_INFO_AGENT
     /\ \/ from = CONFIRMED /\ to = GETTING_USER_INFO
        \/ from = GETTING_USER_INFO /\ to = IN_PROGRESS

\* C17: order_status is unset or in the enum, and every change of it is one
\* of the edges, made by the agent of that edge.
C17_StatusEdgesOnly ==
  [][\A s \in Sessions :
       /\ ORDER_STATUS \in state'[s].keys => state'[s].order_status \in StatusEnum
       /\ StatusOf(state'[s]) # StatusOf(state[s])
            => StatusEdge(StatusOf(state[s]), StatusOf(state'[s]), selected[s])
     ]_vars

\* An order went back from the name question to the menu.
C17_Witness ==
  /\ StatusOf(state["s1"]) = IN_PROGRESS
  /\ NAME_FOR_ORDER \in state["s1"].keys
  /\ pc["s1"] = "running" /\ selected["s1"] = MENU_AGENT


\* ---------------------------------------------------------------- C18
\* An order_update made of the one command block
OneBlock(block) == [empty |-> FALSE, blocks |-> << block >>]

RECURSIVE PriceOfList(_, _)
PriceOfList(list, items) ==
  IF items = {} THEN 0
  ELSE LET item == CHOOSE i \in items : TRUE IN
       PriceGet(item) * CountOf(list, item) + PriceOfList(list, items \ {item})

\* C18: the blocks of an update are applied from left to right; an add
\* block appends its items in list order at the end of current_order and
\* adds the catalog price of each (0 for a name not in the catalog); a block
\* whose verb is neither add nor remove changes nothing.
C18_BlocksLeftToRight ==
  (led_op = "update" /\ ~led_upd.empty) =>
    LET blocks == led_upd.blocks
        cart0  == CartOf(led_pre)
        total0 == TotalOf(led_pre)
        cart1  == CartOf(state["s1"])
        total1 == TotalOf(state["s1"])
    IN
    /\ (Len(blocks) = 1 /\ blocks[1].command = "add") =>
         LET list == StripItems(blocks[1].items_str) IN
         /\ cart1 = cart0 \o list
         /\ total1 = total0 + PriceOfList(list, Items)
    /\ (Len(blocks) = 1 /\ blocks[1].command \notin {"add", "remove"}) =>
         (cart1 = cart0 /\ total1 = total0)
    /\ Len(blocks) = 2 =>
         LET mid == update_order(OneBlock(blocks[1]), led_pre)
             end == update_order(OneBlock(blocks[2]), mid)
         IN  cart1 = CartOf(end) /\ total1 = TotalOf(end)
    /\ (cart0 = << >> /\ led_upd = AddUpdate("King Burger")) =>
         (cart1 = << "King Burger" >> /\ total1 = 999)
    /\ (cart0 = << >>
        /\ blocks = << RemoveUpdate("King Burger").blocks[1],
                       AddUpdate("King Burger").blocks[1] >>) =>
         cart1 = << "King Burger" >>
    /\ (cart0 = << >>
        /\ blocks = << AddUpdate("King Burger").blocks[1],
                       RemoveUpdate("King Burger").blocks[1] >>) =>
         cart1 = << >>

\* 'remove [King Burger] add [King Burger]' was applied to an empty cart.
C18_Witness ==
  /\ led_op = "update"
  /\ CartOf(led_pre) = << >>
  /\ led_upd.blocks = << RemoveUpdate("King Burger").blocks[1],
                         AddUpdate("King Burger").blocks[1] >>
  /\ CartOf(state["s1"]) = << "King Burger" >>
  /\ TotalOf(state["s1"]) = 999

\* ---------------------------------------------------------------- C19
\* C19: update_order leaves order_type, order_status and name_for_order (and
\* whether they are set) as they were, and an empty order_update leaves the
\* whole session dict as it was.
C19_LedgerFrame ==
  led_op = "update" =>
    /\ \A key \in {ORDER_TYPE, ORDER_STATUS, NAME_FOR_ORDER} :
         /\ (key \in state["s1"].keys) <=> (key \in led_pre.keys)
         /\ state["s1"][key] = led_pre[key]
    /\ led_upd.empty => state["s1"] = led_pre

\* An empty order_update was applied to a session without a cart and left
\* the session dict as it was.
C19_Witness ==
  /\ led_op = "update"
  /\ led_upd.empty
  /\ CURRENT_ORDER \notin led_pre.keys
  /\ state["s1"] = led_pre

\* ---------------------------------------------------------------- C20
\* C20 as stated: a sub agent reached through a hand-off inside a call (the
\* second or a later sub agent of the call) runs with no user input.
C20_HandOffSeesNoInput ==
  \A s \in Sessions : (pc[s] = "running" /\ ran[s] >= 2) => seen[s] = None

\* C20: every sub agent of a call, the first one and those reached through
\* hand-offs, runs with the ctx of the call and so with the call's user input.
C20_EveryHandlerSeesInput ==
  \A s \in Sessions :
    pc[s] = "running" => (seen[s] \in UserContents /\ seen[s] = user_content[s])

\* The menu agent runs as the second sub agent of a call, after preorder
\* handed off, with the user's message.
C20_Witness ==
  /\ pc["s1"] = "running"
  /\ ran["s1"] >= 2
  /\ selected["s1"] = MENU_AGENT
  /\ seen["s1"] = "hello"

\* ---------------------------------------------------------------- C14
\* C14: after a call that ended because a sub agent's output failed schema
\* validation, the session state equals the session state before the call,
\* also when earlier sub agents of the call ran through hand-offs.
C14_FailedCallCommitsNothing ==
  \A s \in Sessions :
    (pc[s] = "idle" /\ exit[s] = "validation_error") => state[s] = call_pre[s]

\* ---------------------------------------------------------------- C13
\* The sub agent an external call for s arriving now would run first, None
\* when it would run none
FirstHandler(s) ==
  LET name == get_next_agent(state[s]) IN
  IF WhileCond(step) /\ AgentMapGet(name) \notin {None, DONE_AGENT}
  THEN name ELSE None

\* The step belongs to a call of session t
ActedFor(t) ==
  \/ pc'[t] # pc[t]
  \/ ran'[t] # ran[t]
  \/ exit'[t] # exit[t]
  \/ state'[t] # state[t]

\* C13: two sessions served by the same engine instance share no mutable
\* state: no step taken for one session changes which sub agent the next
\* call of the other session runs.
C13_SessionsShareNothing ==
  [][\A s \in Sessions : \A t \in Sessions \ {s} :
       (pc[s] = "idle" /\ ActedFor(t)) => FirstHandler(s)' = FirstHandler(s)]_vars

\* ---------------------------------------------------------------- C21
\* name_for_order, and whether it is set, is the same in both session dicts
SameName(st1, st2) ==
  /\ (NAME_FOR_ORDER \in st1.keys) <=> (NAME_FOR_ORDER \in st2.keys)
  /\ st1.name_for_order = st2.name_for_order

\* user_info_agent runs for s with the status CONFIRMED and no name
AsksForName(s) ==
  /\ Running(s, USER_INFO_AGENT)
  /\ StatusOf(state[s]) = CONFIRMED
  /\ ~NameTruthy(state[s])

\* user_info_agent ran for s and reported an order change
ReportsOrderChange(s) ==
  /\ Running(s, USER_INFO_AGENT)
  /\ StatusOf(state[s]) # IN_PROGRESS
  /\ StatusOf(state'[s]) = IN_PROGRESS

\* C21: invoked with the status CONFIRMED and no name, user_info_agent sets
\* the status to GETTING_USER_INFO without calling the model and without
\* writing name_for_order, and the call ends at a turn boundary; when it
\* reports an order change it sets the status to IN_PROGRESS, writes no name,
\* and the engine runs menu_agent in the same call.
C21_UserInfoTransitions ==
  [][\A s \in Sessions :
       /\ AsksForName(s) =>
            /\ ~CallsModel(s)
            /\ state'[s] = Put(state[s], ORDER_STATUS, GETTING_USER_INFO)
            /\ SameName(state'[s], state[s])
            /\ pc'[s] = "idle"
            /\ exit'[s] = "turn_boundary"
            /\ outcome'[s] = "returned"
       /\ ReportsOrderChange(s) =>
            /\ SameName(state'[s], state[s])
            /\ pc'[s] = "running"
            /\ selected'[s] = MENU_AGENT
            /\ ran'[s] = ran[s] + 1]_vars

\* The same, for steps that start below the step limit of the engine
C21_BelowLimit ==
  [][\A s \in Sessions :
       /\ AsksForName(s) =>
            /\ ~CallsModel(s)
            /\ state'[s] = Put(state[s], ORDER_STATUS, GETTING_USER_INFO)
            /\ SameName(state'[s], state[s])
            /\ pc'[s] = "idle"
            /\ exit'[s] = "turn_boundary"
            /\ outcome'[s] = "returned"
       /\ (ReportsOrderChange(s) /\ WhileCond(step)) =>
            /\ SameName(state'[s], state[s])
            /\ pc'[s] = "running"
            /\ selected'[s] = MENU_AGENT
            /\ ran'[s] = ran[s] + 1]_vars

\* ---------------------------------------------------------------- C22
\* The order is complete: the type is chosen, the status is CONFIRMED and
\* name_for_order is a non-empty string
OrderComplete(st) ==
  /\ ORDER_TYPE \in st.keys /\ st.order_type \in {"TO_GO", "FOR_HERE"}
  /\ ORDER_STATUS \in st.keys /\ st.order_status = CONFIRMED
  /\ NAME_FOR_ORDER \in st.keys /\ st.name_for_order # ""

\* C22: in every state the engine and the four sub agents can reach,
\* get_next_agent returns "done" exactly when the order is complete; a state
\* with the status GETTING_USER_INFO never routes to "done", with or without
\* a name.
C22_DoneIffComplete ==
  \A s \in Sessions :
    /\ get_next_agent(state[s]) = DONE <=> OrderComplete(state[s])
    /\ StatusOf(state[s]) = GETTING_USER_INFO => get_next_agent(state[s]) # DONE

\* A call found the order complete and routed to "done": the name was given
\* earlier, the order was changed and confirmed again.
C22_Witness ==
  /\ OrderComplete(state["s1"])
  /\ state["s1"].name_for_order = "john"
  /\ pc["s1"] = "idle"
  /\ selected["s1"] = DONE

\* A session holds a name while its status is GETTING_USER_INFO and is
\* routed to user_info_agent.
C22_WitnessGettingInfo ==
  /\ StatusOf(state["s1"]) = GETTING_USER_INFO
  /\ NameTruthy(state["s1"])
  /\ pc["s1"] = "running"
  /\ selected["s1"] = USER_INFO_AGENT

\* ---------------------------------------------------------------- C23
\* C23: a sub agent the engine has invoked for a session is the one
\* get_next_agent names for that session's state, from the moment it is
\* invoked until it acts, also while the calls of another session
\* interleave; so user_info_agent never runs in a state with the status
\* CONFIRMED and a name already set.
C23_NoStaleSelection ==
  \A s \in Sessions :
    /\ pc[s] = "running" => selected[s] = get_next_agent(state[s])
    /\ ~(/\ Running(s, USER_INFO_AGENT)
         /\ StatusOf(state[s]) = CONFIRMED
         /\ NameTruthy(state[s]))

\* user_info_agent runs for s1 with the status CONFIRMED while a call of s2
\* that started later has menu_agent running.
C23_Witness ==
  /\ Running("s1", USER_INFO_AGENT)
  /\ StatusOf(state["s1"]) = CONFIRMED
  /\ Running("s2", MENU_AGENT)
  /\ ran["s2"] = 2
  /\ step > 4

====
